---- MODULE Spec2Model ----
(***************************************************************************)
(* Model of aws-reservations.go: one pass of main, which fetches four      *)
(* listings (running/reserved EC2 instances, running/reserved RDS          *)
(* instances), accumulates them into the maps ei and ri, and prints the    *)
(* keys with a positive count (on-demand) and with a negative count        *)
(* (unused reservations).                                                  *)
(*                                                                         *)
(* A nullable AWS value (aws.StringValue, aws.IntegerValue, ...) is a      *)
(* sequence of length at most one: <<>> is nil, <<v>> points to v.         *)
(* A product description is a sequence of text segments, so that           *)
(* strings.Contains is a search instead of an equality.                    *)
(* A Go map is a function whose DOMAIN is the set of keys present.         *)
(***************************************************************************)
EXTENDS Integers, Sequences, FiniteSets, TLC

VARIABLES
    pc,             \* position of main
    failed,         \* the listing calls that returned an error
    fetched,        \* the listing calls that returned a response
    respEc2i,       \* gateway response: DescribeInstances
    respRdsi,       \* gateway response: DescribeDBInstances
    respEc2ri,      \* gateway response: DescribeReservedInstances
    respRdsri,      \* gateway response: DescribeReservedDBInstances
    runningEi,      \* []ec2InstInfo
    runningRi,      \* []rdsInstInfo
    reservedEi,     \* []ec2InstInfo
    reservedRi,     \* []rdsInstInfo
    idx,            \* records of each list already visited by its range loop
    ei,             \* map[ec2Inst]int
    ri,             \* map[rdsInst]int
    headerPrinted,  \* bool
    todo,           \* keys the current range over a map has not visited yet
    out             \* standard output, one entry per Println/Printf

vars == <<pc, failed, fetched, respEc2i, respRdsi, respEc2ri, respRdsri,
          runningEi, runningRi, reservedEi, reservedRi, idx, ei, ri,
          headerPrinted, todo, out>>

----------------------------------------------------------------------------
(* Bounds *)

\* longest listing of EC2 instances or EC2 reservations the gateway returns
MaxLen == 2

\* longest listing of RDS instances or RDS reservations the gateway returns
MaxDbLen == 1

----------------------------------------------------------------------------
(* Constants of the program *)

UnknownState == 0
Active == 1

ec2fmt == "%20s\t%5s\t%d\n"
rdsfmt == "%20s\t%10s\t%9s\t%d\n"

InstanceStateNamePending == "pending"
InstanceStateNameRunning == "running"
InstanceStateNameShuttingDown == "shutting-down"
InstanceStateNameStopped == "stopped"
InstanceStateNameStopping == "stopping"
InstanceStateNameTerminated == "terminated"

----------------------------------------------------------------------------
(* Nullable values *)

None == <<>>
Some(v) == <<v>>

toInt(i) == IF i = None THEN 0 ELSE i[1]

toStr(s) == IF s = None THEN "" ELSE s[1]

\* toStr of a value whose text is kept as a sequence of segments
toText(s) == IF s = None THEN <<>> ELSE s[1]

toBool(b) == IF b = None THEN FALSE ELSE b[1]

\* strings.Contains on a segmented text
Contains(s, substr) == \E j \in 1..Len(s) : s[j] = substr

stringMultiAZ(b) == IF ~b THEN "" ELSE "MultiAZ"

stringVPC(b) == IF ~b THEN "" ELSE "VPC"

----------------------------------------------------------------------------
(* Normalizers *)

rdsiTordsii(r) ==
    [rdsInst |-> [Class   |-> toStr(r.DBInstanceClass),
                  Product |-> toStr(r.Engine),
                  MultiAZ |-> toBool(r.MultiAZ)],
     Count |-> 1,
     State |-> Active]

rdsriTordsii(r) ==
    [rdsInst |-> [Class   |-> toStr(r.DBInstanceClass),
                  Product |-> toStr(r.ProductDescription),
                  MultiAZ |-> toBool(r.MultiAZ)],
     Count |-> toInt(r.DBInstanceCount),
     State |-> IF toStr(r.State) = "active" THEN Active ELSE UnknownState]

ec2iToec2ii_TerminatedActive(r) ==
    [ec2Inst |-> [Class |-> toStr(r.InstanceType),
                  VPC   |-> toStr(r.VPCID) # ""],
     Count |-> 1,
     State |-> IF r.State # None
                  /\ toStr(r.State[1].Name) \in
                        {InstanceStateNameRunning, InstanceStateNameStopped,
                         InstanceStateNameStopping,
                         InstanceStateNameShuttingDown,
                         InstanceStateNamePending,
                         InstanceStateNameTerminated}
               THEN Active ELSE UnknownState]

ec2iToec2ii(r) ==
    [ec2Inst |-> [Class |-> toStr(r.InstanceType),
                  VPC   |-> toStr(r.VPCID) # ""],
     Count |-> 1,
     State |-> IF r.State # None
                  /\ toStr(r.State[1].Name) \in
                        {InstanceStateNameRunning, InstanceStateNameStopped,
                         InstanceStateNameStopping,
                         InstanceStateNameShuttingDown,
                         InstanceStateNamePending}
               THEN Active ELSE UnknownState]

ec2riToec2ii(r) ==
    [ec2Inst |-> [Class |-> toStr(r.InstanceType),
                  VPC   |-> Contains(toText(r.ProductDescription), "Amazon VPC")],
     Count |-> toInt(r.InstanceCount),
     State |-> IF toStr(r.State) = "active" THEN Active ELSE UnknownState]

----------------------------------------------------------------------------
(* Go maps *)

EmptyMap == <<>>

\* m[k] of a Go map: the zero value when k is absent
Get(m, k) == IF k \in DOMAIN m THEN m[k] ELSE 0

\* m[k] = v
Put(m, k, v) == [x \in DOMAIN m \cup {k} |-> IF x = k THEN v ELSE m[x]]

----------------------------------------------------------------------------
(* Bodies of the four accumulation loops of main *)

\* the first loop without its "if ii.State != Active { continue }"
ApplyRunningEi_NoStateCheck(m, ii) ==
    Put(m, ii.ec2Inst, Get(m, ii.ec2Inst) + ii.Count)

ApplyRunningEi(m, ii) ==
    IF ii.State # Active THEN m
    ELSE Put(m, ii.ec2Inst, Get(m, ii.ec2Inst) + ii.Count)

ApplyRunningRi(m, ii) ==
    IF ii.State # Active THEN m
    ELSE Put(m, ii.rdsInst, Get(m, ii.rdsInst) + ii.Count)

\* "ei[ii.ec2Inst] = -ii.Count" in place of "-="
ApplyReservedEi_Assigns(m, ii) ==
    IF ii.State # Active THEN m
    ELSE Put(m, ii.ec2Inst, 0 - ii.Count)

ApplyReservedEi(m, ii) ==
    IF ii.State # Active THEN m
    ELSE Put(m, ii.ec2Inst, Get(m, ii.ec2Inst) - ii.Count)

\* "ri[ii.rdsInst] += ii.Count" in place of "-="
ApplyReservedRi_Adds(m, ii) ==
    IF ii.State # Active THEN m
    ELSE Put(m, ii.rdsInst, Get(m, ii.rdsInst) + ii.Count)

ApplyReservedRi(m, ii) ==
    IF ii.State # Active THEN m
    ELSE Put(m, ii.rdsInst, Get(m, ii.rdsInst) - ii.Count)

----------------------------------------------------------------------------
(* Guards and output of the four report loops of main *)

\* "if v < 1 { continue }" of the loops printing on-demand instances
SkipOnDemandEi(v) == v < 1

\* "if v <= 1 { continue }"
SkipOnDemandRi_OffByOne(v) == v <= 1

SkipOnDemandRi(v) == v < 1

\* "if v == 0 { continue }"
SkipUnusedEi_OnlyZero(v) == v = 0

\* "if v >= 0 { continue }" of the loops printing unused reservations
SkipUnusedEi(v) == v >= 0

\* "if v > 0 { continue }"
SkipUnusedRi_Positive(v) == v > 0

SkipUnusedRi(v) == v >= 0

Println(text) == [fmt |-> "%s\n", args |-> <<text>>]

Ec2Line(k, v) == [fmt |-> ec2fmt, args |-> <<k.Class, stringVPC(k.VPC), v>>]

RdsLine(k, v) ==
    [fmt |-> rdsfmt, args |-> <<k.Class, k.Product, stringMultiAZ(k.MultiAZ), v>>]

HdrOnDemandEi == "\nOn-demand EC2 instances:"
HdrUnusedEi   == "\nUnused EC2 reservations:"
HdrOnDemandRi == "\nOn-demand RDS instances:"
HdrUnusedRi   == "\nUnused RDS reservation:"

\* one iteration of a report loop: the lines it prints
ReportLines(hp, header, line) ==
    IF hp THEN <<line>> ELSE <<Println(header), line>>

----------------------------------------------------------------------------
(* What the provider gateway may answer *)

Ec2Instance(type, vpcid, state) ==
    [InstanceType |-> type, VPCID |-> vpcid, State |-> state]

StateNamed(n) == Some([Name |-> Some(n)])

ReservedInstances(type, count, descr, state) ==
    [InstanceType |-> type, InstanceCount |-> count,
     ProductDescription |-> descr, State |-> state]

DBInstance(class, engine, multiAZ) ==
    [DBInstanceClass |-> class, Engine |-> engine, MultiAZ |-> multiAZ]

ReservedDBInstance(class, descr, multiAZ, count, state) ==
    [DBInstanceClass |-> class, ProductDescription |-> descr,
     MultiAZ |-> multiAZ, DBInstanceCount |-> count, State |-> state]

Ec2Instances ==
    { Ec2Instance(Some("m3.large"), None, StateNamed("running")),
      Ec2Instance(Some("m3.large"), Some("vpc-1"), StateNamed("stopped")),
      Ec2Instance(Some("m3.large"), None, StateNamed("terminated")) }

Ec2ReservedInstances ==
    { ReservedInstances(Some("m3.large"), Some(1), Some(<<"Linux/UNIX">>),
                        Some("active")),
      ReservedInstances(Some("m3.large"), Some(2), Some(<<"Linux/UNIX">>),
                        Some("active")),
      ReservedInstances(Some("m3.large"), Some(2),
                        Some(<<"Linux/UNIX (", "Amazon VPC", ")">>),
                        Some("retired")) }

DBInstances ==
    { DBInstance(Some("db.m3.large"), Some("mysql"), Some(TRUE)),
      DBInstance(None, None, None) }

ReservedDBInstances ==
    { ReservedDBInstance(Some("db.m3.large"), Some("mysql"), Some(TRUE),
                         Some(1), Some("active")),
      ReservedDBInstance(Some("db.m3.large"), Some("mysql"), Some(TRUE),
                         Some(2), Some("payment-pending")) }

\* every shape of ec2.Instance the normalizer distinguishes
StateNames ==
    {"pending", "running", "shutting-down", "terminated", "stopping",
     "stopped", "rebooting", ""}

AllEc2Instances ==
    { Ec2Instance(t, v, s) :
        t \in {None, Some("m3.large")},
        v \in {None, Some("vpc-1")},
        s \in {None, Some([Name |-> None])} \cup {StateNamed(n) : n \in StateNames} }

Listings(U, max) == UNION { [1..n -> U] : n \in 0..max }

----------------------------------------------------------------------------
(* main *)

Init ==
    /\ pc = "start"
    /\ failed = {}
    /\ fetched = {}
    /\ respEc2i = <<>>
    /\ respRdsi = <<>>
    /\ respEc2ri = <<>>
    /\ respRdsri = <<>>
    /\ runningEi = <<>>
    /\ runningRi = <<>>
    /\ reservedEi = <<>>
    /\ reservedRi = <<>>
    /\ idx = [l \in {"runningEi", "runningRi", "reservedEi", "reservedRi"} |-> 0]
    /\ ei = EmptyMap
    /\ ri = EmptyMap
    /\ headerPrinted = FALSE
    /\ todo = {}
    /\ out = <<>>

\* the range loop over list l has visited every record
Exhausted(l, list) == pc = l /\ idx[l] = Len(list)

\* runningEi, err := getRunningEC2Instances(...); if err != nil { log.Fatal(err) }
GetRunningEC2Instances(U) ==
    /\ pc = "start"
    /\ \/ /\ failed' = failed \cup {"runningEi"}
          /\ pc' = "fatal"
          /\ UNCHANGED <<fetched, respEc2i, runningEi>>
       \/ \E resp \in Listings(U, MaxLen) :
             /\ respEc2i' = resp
             /\ runningEi' = [j \in 1..Len(resp) |-> ec2iToec2ii(resp[j])]
             /\ fetched' = fetched \cup {"runningEi"}
             /\ pc' = "runningEi"
             /\ UNCHANGED failed
    /\ UNCHANGED <<respRdsi, respEc2ri, respRdsri, runningRi, reservedEi,
                   reservedRi, idx, ei, ri, headerPrinted, todo, out>>

\* for _, ii := range runningEi { ... }
AddRunningEi ==
    /\ pc = "runningEi"
    /\ idx["runningEi"] < Len(runningEi)
    /\ idx' = [idx EXCEPT !["runningEi"] = @ + 1]
    /\ ei' = ApplyRunningEi(ei, runningEi[idx'["runningEi"]])
    /\ UNCHANGED <<pc, failed, fetched, respEc2i, respRdsi, respEc2ri,
                   respRdsri, runningEi, runningRi, reservedEi, reservedRi,
                   ri, headerPrinted, todo, out>>

GetRunningRDSInstances ==
    /\ Exhausted("runningEi", runningEi)
    /\ \/ /\ failed' = failed \cup {"runningRi"}
          /\ pc' = "fatal"
          /\ UNCHANGED <<fetched, respRdsi, runningRi>>
       \/ \E resp \in Listings(DBInstances, MaxDbLen) :
             /\ respRdsi' = resp
             /\ runningRi' = [j \in 1..Len(resp) |-> rdsiTordsii(resp[j])]
             /\ fetched' = fetched \cup {"runningRi"}
             /\ pc' = "runningRi"
             /\ UNCHANGED failed
    /\ UNCHANGED <<respEc2i, respEc2ri, respRdsri, runningEi, reservedEi,
                   reservedRi, idx, ei, ri, headerPrinted, todo, out>>

\* the RDS loop also counting each instance in ei, by its class
AddRunningRi_SharedMap ==
    /\ pc = "runningRi"
    /\ idx["runningRi"] < Len(runningRi)
    /\ idx' = [idx EXCEPT !["runningRi"] = @ + 1]
    /\ ri' = ApplyRunningRi(ri, runningRi[idx'["runningRi"]])
    /\ ei' = Put(ei, [Class |-> runningRi[idx'["runningRi"]].rdsInst.Class,
                      VPC |-> FALSE],
                 Get(ei, [Class |-> runningRi[idx'["runningRi"]].rdsInst.Class,
                          VPC |-> FALSE]) + 1)
    /\ UNCHANGED <<pc, failed, fetched, respEc2i, respRdsi, respEc2ri,
                   respRdsri, runningEi, runningRi, reservedEi, reservedRi,
                   headerPrinted, todo, out>>

AddRunningRi ==
    /\ pc = "runningRi"
    /\ idx["runningRi"] < Len(runningRi)
    /\ idx' = [idx EXCEPT !["runningRi"] = @ + 1]
    /\ ri' = ApplyRunningRi(ri, runningRi[idx'["runningRi"]])
    /\ UNCHANGED <<pc, failed, fetched, respEc2i, respRdsi, respEc2ri,
                   respRdsri, runningEi, runningRi, reservedEi, reservedRi,
                   ei, headerPrinted, todo, out>>

GetReservedEC2Instances ==
    /\ Exhausted("runningRi", runningRi)
    /\ \/ /\ failed' = failed \cup {"reservedEi"}
          /\ pc' = "fatal"
          /\ UNCHANGED <<fetched, respEc2ri, reservedEi>>
       \/ \E resp \in Listings(Ec2ReservedInstances, MaxLen) :
             /\ respEc2ri' = resp
             /\ reservedEi' = [j \in 1..Len(resp) |-> ec2riToec2ii(resp[j])]
             /\ fetched' = fetched \cup {"reservedEi"}
             /\ pc' = "reservedEi"
             /\ UNCHANGED failed
    /\ UNCHANGED <<respEc2i, respRdsi, respRdsri, runningEi, runningRi,
                   reservedRi, idx, ei, ri, headerPrinted, todo, out>>

AddReservedEi ==
    /\ pc = "reservedEi"
    /\ idx["reservedEi"] < Len(reservedEi)
    /\ idx' = [idx EXCEPT !["reservedEi"] = @ + 1]
    /\ ei' = ApplyReservedEi(ei, reservedEi[idx'["reservedEi"]])
    /\ UNCHANGED <<pc, failed, fetched, respEc2i, respRdsi, respEc2ri,
                   respRdsri, runningEi, runningRi, reservedEi, reservedRi,
                   ri, headerPrinted, todo, out>>

\* the error of getReservedRDSInstances dropped instead of log.Fatal
GetReservedRDSInstances_IgnoresError ==
    /\ Exhausted("reservedEi", reservedEi)
    /\ \/ /\ failed' = failed \cup {"reservedRi"}
          /\ reservedRi' = <<>>
          /\ UNCHANGED <<fetched, respRdsri>>
       \/ \E resp \in Listings(ReservedDBInstances, MaxDbLen) :
             /\ respRdsri' = resp
             /\ reservedRi' = [j \in 1..Len(resp) |-> rdsriTordsii(resp[j])]
             /\ fetched' = fetched \cup {"reservedRi"}
             /\ UNCHANGED failed
    /\ pc' = "reservedRi"
    /\ UNCHANGED <<respEc2i, respRdsi, respEc2ri, runningEi, runningRi,
                   reservedEi, idx, ei, ri, headerPrinted, todo, out>>

GetReservedRDSInstances ==
    /\ Exhausted("reservedEi", reservedEi)
    /\ \/ /\ failed' = failed \cup {"reservedRi"}
          /\ pc' = "fatal"
          /\ UNCHANGED <<fetched, respRdsri, reservedRi>>
       \/ \E resp \in Listings(ReservedDBInstances, MaxDbLen) :
             /\ respRdsri' = resp
             /\ reservedRi' = [j \in 1..Len(resp) |-> rdsriTordsii(resp[j])]
             /\ fetched' = fetched \cup {"reservedRi"}
             /\ pc' = "reservedRi"
             /\ UNCHANGED failed
    /\ UNCHANGED <<respEc2i, respRdsi, respEc2ri, runningEi, runningRi,
                   reservedEi, idx, ei, ri, headerPrinted, todo, out>>

AddReservedRi ==
    /\ pc = "reservedRi"
    /\ idx["reservedRi"] < Len(reservedRi)
    /\ idx' = [idx EXCEPT !["reservedRi"] = @ + 1]
    /\ ri' = ApplyReservedRi(ri, reservedRi[idx'["reservedRi"]])
    /\ UNCHANGED <<pc, failed, fetched, respEc2i, respRdsi, respEc2ri,
                   respRdsri, runningEi, runningRi, reservedEi, reservedRi,
                   ei, headerPrinted, todo, out>>

\* the report started without waiting for the reserved RDS listing
ReportReady_NotJoined == Exhausted("reservedEi", reservedEi)

\* the accumulation loops are over: headerPrinted := false; for k, v := range ei
ReportReady == Exhausted("reservedRi", reservedRi)

BeginOnDemandEi ==
    /\ ReportReady
    /\ pc' = "onDemandEi"
    /\ headerPrinted' = FALSE
    /\ todo' = DOMAIN ei
    /\ UNCHANGED <<failed, fetched, respEc2i, respRdsi, respEc2ri, respRdsri,
                   runningEi, runningRi, reservedEi, reservedRi, idx, ei, ri,
                   out>>

\* one iteration of a report loop, at key k: skip it, or print the header
\* (once) and the line
ReportStep(k, skip, header, line) ==
    /\ todo' = todo \ {k}
    /\ IF skip
       THEN UNCHANGED <<headerPrinted, out>>
       ELSE /\ headerPrinted' = TRUE
            /\ out' = out \o ReportLines(headerPrinted, header, line)
    /\ UNCHANGED <<pc, failed, fetched, respEc2i, respRdsi, respEc2ri,
                   respRdsri, runningEi, runningRi, reservedEi, reservedRi,
                   idx, ei, ri>>

\* the end of one report loop and the start of the next
NextReport(site, next, m) ==
    /\ pc = site
    /\ todo = {}
    /\ pc' = next
    /\ headerPrinted' = FALSE
    /\ todo' = DOMAIN m
    /\ UNCHANGED <<failed, fetched, respEc2i, respRdsi, respEc2ri, respRdsri,
                   runningEi, runningRi, reservedEi, reservedRi, idx, ei, ri,
                   out>>

\* for k, v := range ei: Go visits the keys of a map in any order
PrintOnDemandEi ==
    /\ pc = "onDemandEi"
    /\ \E k \in todo :
          ReportStep(k, SkipOnDemandEi(ei[k]), HdrOnDemandEi, Ec2Line(k, ei[k]))

BeginUnusedEi == NextReport("onDemandEi", "unusedEi", ei)

PrintUnusedEi ==
    /\ pc = "unusedEi"
    /\ \E k \in todo :
          ReportStep(k, SkipUnusedEi(ei[k]), HdrUnusedEi, Ec2Line(k, -ei[k]))

BeginOnDemandRi == NextReport("unusedEi", "onDemandRi", ri)

PrintOnDemandRi ==
    /\ pc = "onDemandRi"
    /\ \E k \in todo :
          ReportStep(k, SkipOnDemandRi(ri[k]), HdrOnDemandRi, RdsLine(k, ri[k]))

BeginUnusedRi == NextReport("onDemandRi", "unusedRi", ri)

PrintUnusedRi ==
    /\ pc = "unusedRi"
    /\ \E k \in todo :
          ReportStep(k, SkipUnusedRi(ri[k]), HdrUnusedRi, RdsLine(k, -ri[k]))

\* main returns
Return ==
    /\ pc = "unusedRi"
    /\ todo = {}
    /\ pc' = "done"
    /\ UNCHANGED <<failed, fetched, respEc2i, respRdsi, respEc2ri, respRdsri,
                   runningEi, runningRi, reservedEi, reservedRi, idx, ei, ri,
                   headerPrinted, todo, out>>

Next ==
    \/ GetRunningEC2Instances(Ec2Instances)
    \/ AddRunningEi
    \/ GetRunningRDSInstances
    \/ AddRunningRi
    \/ GetReservedEC2Instances
    \/ AddReservedEi
    \/ GetReservedRDSInstances
    \/ AddReservedRi
    \/ BeginOnDemandEi
    \/ PrintOnDemandEi
    \/ BeginUnusedEi
    \/ PrintUnusedEi
    \/ BeginOnDemandRi
    \/ PrintOnDemandRi
    \/ BeginUnusedRi
    \/ PrintUnusedRi
    \/ Return

Spec == Init /\ [][Next]_vars

\* the pass of getRunningEC2Instances and of the first loop of main alone,
\* over every shape of ec2.Instance
NormNext ==
    \/ GetRunningEC2Instances(AllEc2Instances)
    \/ AddRunningEi

NormSpec == Init /\ [][NormNext]_vars

----------------------------------------------------------------------------
(* reconcile: the accumulation loops of main as functions of whole lists *)

RECURSIVE FoldRunningEi(_, _)
FoldRunningEi(m, list) ==
    IF list = <<>> THEN m
    ELSE FoldRunningEi(ApplyRunningEi(m, Head(list)), Tail(list))

RECURSIVE FoldReservedEi(_, _)
FoldReservedEi(m, list) ==
    IF list = <<>> THEN m
    ELSE FoldReservedEi(ApplyReservedEi(m, Head(list)), Tail(list))

RECURSIVE FoldRunningRi(_, _)
FoldRunningRi(m, list) ==
    IF list = <<>> THEN m
    ELSE FoldRunningRi(ApplyRunningRi(m, Head(list)), Tail(list))

RECURSIVE FoldReservedRi(_, _)
FoldReservedRi(m, list) ==
    IF list = <<>> THEN m
    ELSE FoldReservedRi(ApplyReservedRi(m, Head(list)), Tail(list))

ReconcileEi(running, reserved) ==
    FoldReservedEi(FoldRunningEi(EmptyMap, running), reserved)

ReconcileRi(running, reserved) ==
    FoldReservedRi(FoldRunningRi(EmptyMap, running), reserved)

----------------------------------------------------------------------------
(* Vocabulary of the properties *)

AllListings == {"runningEi", "runningRi", "reservedEi", "reservedRi"}

ReportPhases == {"onDemandEi", "unusedEi", "onDemandRi", "unusedRi"}

\* the keys the listings can produce, some keys they cannot, and the keys
\* present in the maps
Ec2KeyUniverse == [Class : {"", "m3.large"}, VPC : BOOLEAN]

RdsKeyUniverse ==
    [Class : {"db.m3.large"}, Product : {"mysql"}, MultiAZ : BOOLEAN]
        \cup {[Class |-> "", Product |-> "", MultiAZ |-> FALSE]}

Ec2Keys == Ec2KeyUniverse \cup DOMAIN ei

RdsKeys == RdsKeyUniverse \cup DOMAIN ri

RECURSIVE SumSeq(_)
SumSeq(s) == IF s = <<>> THEN 0 ELSE Head(s) + SumSeq(Tail(s))

\* sum of Count over the Active records of list whose key is k
ActiveCountEc2(list, k) ==
    SumSeq([j \in 1..Len(list) |->
              IF list[j].State = Active /\ list[j].ec2Inst = k
              THEN list[j].Count ELSE 0])

ActiveCountRds(list, k) ==
    SumSeq([j \in 1..Len(list) |->
              IF list[j].State = Active /\ list[j].rdsInst = k
              THEN list[j].Count ELSE 0])

IsActive(ii) == ii.State = Active

\* the first n records of list
Prefix(list, n) == SubSeq(list, 1, n)

IsHeader(l) == l.fmt = "%s\n"

\* the report lines under header h, up to the next header: one bucket of
\* the report
Bucket(h) ==
    LET at == {m \in 1..Len(out) : out[m] = Println(h)}
    IN  {out[j].args :
           j \in {n \in 1..Len(out) :
                    \E m \in at :
                       m < n /\ \A i \in (m + 1)..n : ~IsHeader(out[i])}}

\* bucket b holds a line for key k
Ec2Reported(b, k) ==
    \E a \in b : a[1] = k.Class /\ a[2] = stringVPC(k.VPC)

RdsReported(b, k) ==
    \E a \in b :
        a[1] = k.Class /\ a[2] = k.Product /\ a[3] = stringMultiAZ(k.MultiAZ)

ReportedValues == {out[j].args[Len(out[j].args)] : j \in {n \in 1..Len(out) : ~IsHeader(out[n])}}

Perms(s) ==
    {[j \in 1..Len(s) |-> s[p[j]]] :
        p \in {q \in [1..Len(s) -> 1..Len(s)] :
                 \A a, b \in 1..Len(s) : a # b => q[a] # q[b]}}

----------------------------------------------------------------------------
(* Properties *)

\* C1: once all four listings are fetched and applied, and before anything
\* is printed, every key's value in
\* ei (and in ri) is the sum of Count over the Active running records with
\* that key minus the sum of Count over the Active reserved records with it.
C1_NetCount ==
    ReportReady =>
        /\ \A k \in Ec2Keys :
              Get(ei, k) = ActiveCountEc2(runningEi, k) - ActiveCountEc2(reservedEi, k)
        /\ \A k \in RdsKeys :
              Get(ri, k) = ActiveCountRds(runningRi, k) - ActiveCountRds(reservedRi, k)

C1_Witness ==
    /\ ReportReady
    /\ \E k \in DOMAIN ei :
          /\ ActiveCountEc2(runningEi, k) = 2
          /\ ActiveCountEc2(reservedEi, k) = 3
          /\ ei[k] = -1
    /\ \E k \in DOMAIN ri :
          /\ ActiveCountRds(runningRi, k) = 1
          /\ ActiveCountRds(reservedRi, k) = 1
          /\ ri[k] = 0

\* C2: no key is reported both in the on-demand bucket and in the
\* unused-reservations bucket of its kind.
C2_Exclusive ==
    LET onDemandEi == Bucket(HdrOnDemandEi)
        unusedEi   == Bucket(HdrUnusedEi)
        onDemandRi == Bucket(HdrOnDemandRi)
        unusedRi   == Bucket(HdrUnusedRi)
    IN  /\ \A k \in Ec2Keys :
              ~(Ec2Reported(onDemandEi, k) /\ Ec2Reported(unusedEi, k))
        /\ \A k \in RdsKeys :
              ~(RdsReported(onDemandRi, k) /\ RdsReported(unusedRi, k))

C2_Witness ==
    /\ pc = "done"
    /\ \E k1, k2 \in DOMAIN ei :
          /\ Ec2Reported(Bucket(HdrOnDemandEi), k1)
          /\ Ec2Reported(Bucket(HdrUnusedEi), k2)
    /\ \E k \in DOMAIN ri : RdsReported(Bucket(HdrOnDemandRi), k)

\* C3: when main returns, a key with net count n > 0 stands in the on-demand
\* bucket of its kind with value n, a key with n < 0 stands in the
\* unused-reservations bucket with value -n, and every reported value is a
\* strictly positive integer.
C3_Classified ==
    pc = "done" =>
        /\ \A k \in Ec2Keys :
              /\ Get(ei, k) > 0 => Ec2Line(k, Get(ei, k)).args \in Bucket(HdrOnDemandEi)
              /\ Get(ei, k) < 0 => Ec2Line(k, -Get(ei, k)).args \in Bucket(HdrUnusedEi)
        /\ \A k \in RdsKeys :
              /\ Get(ri, k) > 0 => RdsLine(k, Get(ri, k)).args \in Bucket(HdrOnDemandRi)
              /\ Get(ri, k) < 0 => RdsLine(k, -Get(ri, k)).args \in Bucket(HdrUnusedRi)
        /\ \A v \in ReportedValues : v \in Nat \ {0}

C3_Witness ==
    /\ pc = "done"
    /\ \E k1, k2 \in DOMAIN ei : ei[k1] = 1 /\ ei[k2] = -4
    /\ \E k \in DOMAIN ri : ri[k] = -1
    /\ ReportedValues = {1, 4}

\* C4: a key whose net count is 0 stands in neither bucket of its kind.
C4_ZeroAbsent ==
    LET onDemandEi == Bucket(HdrOnDemandEi)
        unusedEi   == Bucket(HdrUnusedEi)
        onDemandRi == Bucket(HdrOnDemandRi)
        unusedRi   == Bucket(HdrUnusedRi)
    IN  /\ \A k \in Ec2Keys :
              Get(ei, k) = 0 =>
                 ~Ec2Reported(onDemandEi, k) /\ ~Ec2Reported(unusedEi, k)
        /\ \A k \in RdsKeys :
              Get(ri, k) = 0 =>
                 ~RdsReported(onDemandRi, k) /\ ~RdsReported(unusedRi, k)

\* one Active running record and one Active reservation of Count 1 with the
\* same key, of each kind: nothing is printed
C4_Witness ==
    /\ pc = "done"
    /\ Len(runningEi) = 1 /\ Len(reservedEi) = 1
    /\ IsActive(runningEi[1]) /\ IsActive(reservedEi[1])
    /\ runningEi[1].ec2Inst = reservedEi[1].ec2Inst
    /\ reservedEi[1].Count = 1
    /\ runningEi[1].ec2Inst \in DOMAIN ei
    /\ Len(runningRi) = 1 /\ Len(reservedRi) = 1
    /\ IsActive(reservedRi[1])
    /\ runningRi[1].rdsInst = reservedRi[1].rdsInst
    /\ runningRi[1].rdsInst \in DOMAIN ri
    /\ out = <<>>

\* C5: records that are not Active change nothing: throughout the
\* accumulation each map is what the Active records visited so far alone
\* produce, and every key present in a map is the key of an Active record
\* already visited.
C5_NonActiveIgnored ==
    pc \notin ReportPhases \cup {"done"} =>
        /\ ei = ReconcileEi(SelectSeq(Prefix(runningEi, idx["runningEi"]), IsActive),
                            SelectSeq(Prefix(reservedEi, idx["reservedEi"]), IsActive))
        /\ ri = ReconcileRi(SelectSeq(Prefix(runningRi, idx["runningRi"]), IsActive),
                            SelectSeq(Prefix(reservedRi, idx["reservedRi"]), IsActive))
        /\ \A k \in DOMAIN ei :
              \/ \E j \in 1..idx["runningEi"] :
                    IsActive(runningEi[j]) /\ runningEi[j].ec2Inst = k
              \/ \E j \in 1..idx["reservedEi"] :
                    IsActive(reservedEi[j]) /\ reservedEi[j].ec2Inst = k
        /\ \A k \in DOMAIN ri :
              \/ \E j \in 1..idx["runningRi"] :
                    IsActive(runningRi[j]) /\ runningRi[j].rdsInst = k
              \/ \E j \in 1..idx["reservedRi"] :
                    IsActive(reservedRi[j]) /\ reservedRi[j].rdsInst = k

\* a terminated instance, a retired EC2 reservation of Count 2 and a pending
\* RDS reservation of Count 2 have been visited; the maps are empty
C5_Witness ==
    /\ ReportReady
    /\ Len(runningEi) = 1 /\ ~IsActive(runningEi[1])
    /\ Len(reservedEi) = 1 /\ ~IsActive(reservedEi[1]) /\ reservedEi[1].Count = 2
    /\ runningRi = <<>>
    /\ Len(reservedRi) = 1 /\ ~IsActive(reservedRi[1]) /\ reservedRi[1].Count = 2
    /\ ei = EmptyMap /\ ri = EmptyMap

\* C6: output implies that all four fetches succeeded; after a failed fetch
\* the pass is over and nothing has been printed.
C6_NoPartialReport ==
    /\ out # <<>> => failed = {} /\ fetched = AllListings
    /\ failed # {} => pc = "fatal" /\ out = <<>>

\* the last fetch failed after three listings were applied
C6_Witness ==
    /\ failed = {"reservedRi"}
    /\ pc = "fatal"
    /\ fetched = AllListings \ {"reservedRi"}
    /\ \E k \in DOMAIN ei : ei[k] # 0
    /\ \E k \in DOMAIN ri : ri[k] # 0
    /\ out = <<>>

AppliedEi ==
    /\ {"runningEi", "reservedEi"} \subseteq fetched
    /\ idx["runningEi"] = Len(runningEi)
    /\ idx["reservedEi"] = Len(reservedEi)

AppliedRi ==
    /\ {"runningRi", "reservedRi"} \subseteq fetched
    /\ idx["runningRi"] = Len(runningRi)
    /\ idx["reservedRi"] = Len(reservedRi)

NoAccumulationOnceClassifying ==
    pc \in ReportPhases \cup {"done"} =>
        /\ ei' = ei /\ ri' = ri /\ idx' = idx
        /\ pc' \in ReportPhases \cup {"done"}

\* C8: while a mapping is being classified every record of its kind has
\* been applied to it, and once classification has started no step visits
\* a record or changes a mapping.
C8_ClassifyAfterAccumulate ==
    /\ [](pc \in {"onDemandEi", "unusedEi"} => AppliedEi)
    /\ [](pc \in {"onDemandRi", "unusedRi"} => AppliedRi)
    /\ [][NoAccumulationOnceClassifying]_vars

C8_Witness ==
    /\ pc = "onDemandEi"
    /\ todo = DOMAIN ei
    /\ out = <<>>
    /\ Len(runningEi) = 2 /\ Len(reservedEi) = 2
    /\ Len(runningRi) = 1 /\ Len(reservedRi) = 1
    /\ AppliedEi /\ AppliedRi

\* C9: ec2iToec2ii yields Count 1 for every instance, and state Active
\* exactly when the instance has a state whose name is running, pending,
\* stopping, shutting-down or stopped; otherwise it yields Unknown.
C9_RunningComputeNormalized ==
    "runningEi" \in fetched =>
        /\ Len(runningEi) = Len(respEc2i)
        /\ \A j \in 1..Len(respEc2i) :
              /\ runningEi[j].Count = 1
              /\ runningEi[j].State = Active <=>
                    /\ respEc2i[j].State # None
                    /\ respEc2i[j].State[1].Name \in
                          {Some("running"), Some("pending"), Some("stopping"),
                           Some("shutting-down"), Some("stopped")}
              /\ runningEi[j].State # Active => runningEi[j].State = UnknownState

C9_Witness ==
    /\ "runningEi" \in fetched
    /\ Len(respEc2i) = 2
    /\ respEc2i[1].State = StateNamed("terminated")
    /\ runningEi[1].State = UnknownState
    /\ respEc2i[2].State = None
    /\ runningEi[2].State = UnknownState
    /\ runningEi[2].Count = 1

OtherKindUnchanged ==
    /\ (idx'["runningEi"] # idx["runningEi"]
          \/ idx'["reservedEi"] # idx["reservedEi"]) => ri' = ri
    /\ (idx'["runningRi"] # idx["runningRi"]
          \/ idx'["reservedRi"] # idx["reservedRi"]) => ei' = ei

\* C10: a step that visits a compute record leaves ri unchanged and a step
\* that visits a database record leaves ei unchanged; at every moment ei is
\* what the compute records visited so far produce and ri what the database
\* records visited so far produce.
C10_KindsIndependent ==
    /\ [](ei = ReconcileEi(Prefix(runningEi, idx["runningEi"]),
                           Prefix(reservedEi, idx["reservedEi"])))
    /\ [](ri = ReconcileRi(Prefix(runningRi, idx["runningRi"]),
                           Prefix(reservedRi, idx["reservedRi"])))
    /\ [][OtherKindUnchanged]_vars

C10_Witness ==
    /\ pc = "reservedRi"
    /\ idx["reservedRi"] = 1
    /\ IsActive(reservedRi[1])
    /\ ri # EmptyMap
    /\ \E k \in DOMAIN ei : ei[k] # 0

====
